---- MODULE Spec2Model ----
(***************************************************************************)
(* A model of the BMG type lattice (compiler/bmg_types.py), of the graph   *)
(* builder (utils/bm_graph_builder.py) and of the requirements fixer       *)
(* (compiler/fix_requirements.py).                                         *)
(***************************************************************************)
EXTENDS Naturals, Integers, Sequences, FiniteSets, TLC

VARIABLES
  arg_t, arg_u, arg_v,   \* the arguments handed to the function under test
  op,                    \* the function that was applied, "none" before
  res,                   \* what it returned
  type_objects,          \* interning: the BMGLatticeType objects that exist
  class_memo,            \* interning: the objects the memoized classes hold
  lookup_built,          \* interning: _lookup_table is not None
  sup_memo,              \* interning: an entry of the memo of _supremum
  dedup,                 \* fixer: the builder's map from a node as made to it
  errors,                \* fixer: the error report
  fix_pc,                \* fixer: how the call of fix_problems ended
  client,                \* the factories the program under test calls
  heap,                  \* the BMGNode objects constructed so far, by identity
  nodes                  \* BMGraphBuilder.nodes: the dict, in insertion order

vars ==
  <<arg_t, arg_u, arg_v, op, res, type_objects, class_memo, lookup_built,
    sup_memo, dedup, errors, fix_pc, client, heap, nodes>>

latticeVars == <<arg_t, arg_u, arg_v, op, res>>
internVars == <<type_objects, class_memo, lookup_built, sup_memo>>
fixerVars == <<dedup, errors, fix_pc>>
builderVars == <<client, heap, nodes>>

(***************************************************************************)
(* Bounds                                                                  *)
(***************************************************************************)

\* Matrix shapes rows x columns with rows * columns <= MaxDim.
MaxDim == 2

\* The number of type objects constructed after the module is loaded.
MaxNewTypes == 4

\* The number of BMGNode objects constructed in a run of the builder.
MaxNodes == 4

\* Tensors of one and two dimensions have up to MaxRows rows and MaxColumns
\* columns.
MaxRows == 2
MaxColumns == 3

\* The nodes a program makes when the claims are about the repairs of
\* malformed operators.
MaxRepairNodes == 5


(***************************************************************************)
(* bmg_types.py: the types                                                 *)
(***************************************************************************)

\* BMGLatticeType objects that are not matrix types carry no dimensions.
MarkerType(name) == [cls |-> name, rows |-> 0, columns |-> 0]

\* BMGMatrixType: the class of the object with its rows and columns.
MatrixType(cls, rows, columns) == [cls |-> cls, rows |-> rows, columns |-> columns]

BooleanMatrix(rows, columns) == MatrixType("B", rows, columns)
NaturalMatrix(rows, columns) == MatrixType("N", rows, columns)
ProbabilityMatrix(rows, columns) == MatrixType("P", rows, columns)
PositiveRealMatrix(rows, columns) == MatrixType("RP", rows, columns)
NegativeRealMatrix(rows, columns) == MatrixType("RN", rows, columns)
RealMatrix(rows, columns) == MatrixType("R", rows, columns)
SimplexMatrix(rows, columns) == MatrixType("S", rows, columns)
OneHotMatrix(rows, columns) == MatrixType("OH", rows, columns)
ZeroMatrix(rows, columns) == MatrixType("Z", rows, columns)

bottom == MarkerType("bottom")
One == OneHotMatrix(1, 1)
Zero == ZeroMatrix(1, 1)
Boolean == BooleanMatrix(1, 1)
Natural == NaturalMatrix(1, 1)
Probability == ProbabilityMatrix(1, 1)
PositiveReal == PositiveRealMatrix(1, 1)
NegativeReal == NegativeRealMatrix(1, 1)
Real == RealMatrix(1, 1)
Tensor == MarkerType("T")
Malformed == MarkerType("M")
top == Malformed

\* The matrix classes, in the order of the lookup table.
MatrixClasses == {"R", "RP", "RN", "P", "S", "N", "B", "OH", "Z"}

isinstance_BMGMatrixType(t) == t.cls \in MatrixClasses

Shapes == {s \in (1..MaxDim) \X (1..MaxDim) : s[1] * s[2] <= MaxDim}

MatrixTypes == {MatrixType(k, s[1], s[2]) : k \in MatrixClasses, s \in Shapes}

LatticeTypes == {bottom, Tensor, Malformed} \cup MatrixTypes

(***************************************************************************)
(* bmg_types.py: the supremum                                              *)
(***************************************************************************)

\* The map from (class, class) to the class whose constructor is applied.
_lookup_table ==
  [R  |-> [R |-> "R", RP |-> "R",  RN |-> "R",  P |-> "R",  S |-> "R",
           N |-> "R",  B |-> "R",  OH |-> "R",  Z |-> "R"],
   RP |-> [R |-> "R", RP |-> "RP", RN |-> "R",  P |-> "RP", S |-> "RP",
           N |-> "RP", B |-> "RP", OH |-> "RP", Z |-> "RP"],
   RN |-> [R |-> "R", RP |-> "R",  RN |-> "RN", P |-> "R",  S |-> "R",
           N |-> "R",  B |-> "R",  OH |-> "R",  Z |-> "RN"],
   P  |-> [R |-> "R", RP |-> "RP", RN |-> "R",  P |-> "P",  S |-> "P",
           N |-> "RP", B |-> "P",  OH |-> "P",  Z |-> "P"],
   S  |-> [R |-> "R", RP |-> "RP", RN |-> "R",  P |-> "P",  S |-> "S",
           N |-> "RP", B |-> "RP", OH |-> "S",  Z |-> "R"],
   N  |-> [R |-> "R", RP |-> "RP", RN |-> "R",  P |-> "RP", S |-> "RP",
           N |-> "N",  B |-> "N",  OH |-> "N",  Z |-> "N"],
   B  |-> [R |-> "R", RP |-> "RP", RN |-> "R",  P |-> "P",  S |-> "P",
           N |-> "N",  B |-> "B",  OH |-> "B",  Z |-> "B"],
   OH |-> [R |-> "R", RP |-> "RP", RN |-> "R",  P |-> "P",  S |-> "S",
           N |-> "N",  B |-> "B",  OH |-> "OH", Z |-> "B"],
   Z  |-> [R |-> "R", RP |-> "RP", RN |-> "RN", P |-> "P",  S |-> "S",
           N |-> "N",  B |-> "B",  OH |-> "B",  Z |-> "Z"]]

_lookup(tcls, ucls) == _lookup_table[tcls][ucls]

\* _supremum without its "if u == bottom: return t".
_supremum_no_right_bottom(t, u) ==
  IF t = u THEN t
  ELSE IF t = bottom THEN u
  ELSE IF t = top \/ u = top THEN top
  ELSE IF t = Tensor \/ u = Tensor THEN Tensor
  ELSE IF t.rows # u.rows \/ t.columns # u.columns THEN Tensor
  ELSE MatrixType(_lookup(t.cls, u.cls), t.rows, t.columns)

\* Takes two BMG types; the code's chain of early returns.
_supremum(t, u) ==
  IF t = u THEN t
  ELSE IF t = bottom THEN u
  ELSE IF u = bottom THEN t
  ELSE IF t = top \/ u = top THEN top
  ELSE IF t = Tensor \/ u = Tensor THEN Tensor
  ELSE IF t.rows # u.rows \/ t.columns # u.columns THEN Tensor
  ELSE MatrixType(_lookup(t.cls, u.cls), t.rows, t.columns)

\* supremum(*ts): the fold of _supremum over the arguments, from bottom.
RECURSIVE supremum_from(_, _)
supremum_from(result, ts) ==
  IF ts = <<>> THEN result
  ELSE supremum_from(_supremum(result, Head(ts)), Tail(ts))

supremum(ts) == supremum_from(bottom, ts)

(***************************************************************************)
(* bmg_types.py: requirements                                              *)
(***************************************************************************)

\* An exact requirement is the type itself; an upper bound wraps it.
UpperBound(bound) == [bound |-> bound]

isinstance_UpperBound(r) == "bound" \in DOMAIN r

upper_bound(bound) ==
  IF isinstance_UpperBound(bound) THEN bound ELSE UpperBound(bound)

\* meets_requirement comparing the supremum with t instead of the bound.
meets_requirement_wrong_side(t, r) ==
  IF t = Malformed THEN FALSE
  ELSE IF isinstance_UpperBound(r) THEN _supremum(t, r.bound) = t
  ELSE t = r

\* meets_requirement without "a malformed node meets no requirements".
meets_requirement_no_malformed(t, r) ==
  IF isinstance_UpperBound(r) THEN _supremum(t, r.bound) = r.bound
  ELSE t = r

meets_requirement(t, r) ==
  IF t = Malformed THEN FALSE
  ELSE IF isinstance_UpperBound(r) THEN _supremum(t, r.bound) = r.bound
  ELSE t = r

(***************************************************************************)
(* The lattice functions applied to every choice of arguments              *)
(***************************************************************************)

\* No lattice function is under test.
LatticeIdle ==
  /\ arg_t = bottom
  /\ arg_u = bottom
  /\ arg_v = bottom
  /\ op = "idle"
  /\ res = <<>>

\* BMGraphBuilder.__init__: no node objects, an empty dict.
BuilderEmpty ==
  /\ client = <<>>
  /\ heap = <<>>
  /\ nodes = <<>>

(***************************************************************************)
(* bmg_types.py: the type objects and their interning                      *)
(***************************************************************************)

\* The BMGElementType objects, by their long names.
bool_element == "bool"
natural_element == "natural"
probability_element == "probability"
positive_real_element == "positive real"
negative_real_element == "negative real"
real_element == "real"

\* BMGMatrixType.__init__: self.element_type = element_type.
BMGMatrixType__init__(element_type, rows, columns) == element_type

\* BroadcastMatrixType.__init__: the names are made from element_type, and
\* BMGMatrixType.__init__ is called with bool_element.
BroadcastMatrixType__init__(element_type, rows, columns) ==
  BMGMatrixType__init__(bool_element, rows, columns)

\* What the __init__ of each matrix class passes on, and to which __init__.
element_type_of(key) ==
  CASE key.cls = "B" ->
         BroadcastMatrixType__init__(bool_element, key.rows, key.columns)
    [] key.cls = "N" ->
         BroadcastMatrixType__init__(natural_element, key.rows, key.columns)
    [] key.cls = "P" ->
         BroadcastMatrixType__init__(probability_element, key.rows,
                                     key.columns)
    [] key.cls = "RP" ->
         BroadcastMatrixType__init__(positive_real_element, key.rows,
                                     key.columns)
    [] key.cls = "RN" ->
         BroadcastMatrixType__init__(negative_real_element, key.rows,
                                     key.columns)
    [] key.cls = "R" ->
         BroadcastMatrixType__init__(real_element, key.rows, key.columns)
    [] key.cls = "S" ->
         BMGMatrixType__init__(probability_element, key.rows, key.columns)
    [] key.cls \in {"OH", "Z"} ->
         BMGMatrixType__init__(bool_element, key.rows, key.columns)
    [] OTHER -> "no attribute"

\* A type object: what it was constructed with, how many objects with the
\* same class and dimensions existed when it was made (its identity), and
\* the element_type its __init__ left on it.
TypeObject(key, serial) ==
  [key |-> key, serial |-> serial, element_type |-> element_type_of(key)]

\* The objects the module makes when it is loaded.
ModuleTypeObjects ==
  {TypeObject(k, 0) :
     k \in {bottom, One, Zero, Boolean, Natural, Probability, PositiveReal,
            NegativeReal, Real, Tensor, Malformed}}

\* No RequirementsFixer has been made.
NoFixer ==
  /\ dedup = <<>>
  /\ errors = <<>>
  /\ fix_pc = "none"

\* The state after "import bmg_types": the scalar types were made by the
\* memoized classes; bottom, Tensor and Malformed are plain objects.
ModuleLoaded ==
  /\ type_objects = ModuleTypeObjects
  /\ class_memo = {o \in ModuleTypeObjects : isinstance_BMGMatrixType(o.key)}
  /\ lookup_built = FALSE
  /\ sup_memo = <<>>

\* The interned state as one value: the objects and the memo of the classes.
InternState(objs, memo) == [objs |-> objs, memo |-> memo]

\* cls.__init__(rows, columns): a new object, whatever exists already.
class_init(st, key) ==
  LET new == TypeObject(key, Cardinality({o \in st.objs : o.key = key}))
  IN [obj |-> new, objs |-> st.objs \cup {new}, memo |-> st.memo]

\* @memoize on a class: the object made by the first call with these
\* arguments, for every later call with them.
memoize_class(st, key) ==
  IF \E o \in st.memo : o.key = key
  THEN [obj |-> CHOOSE o \in st.memo : o.key = key,
        objs |-> st.objs, memo |-> st.memo]
  ELSE LET made == class_init(st, key)
       IN [obj |-> made.obj, objs |-> made.objs,
           memo |-> st.memo \cup {made.obj}]

\* _lookup(): the first call builds the table, and SimplexMatrix(1, 1) to
\* take its class.
_lookup_build(st, built) ==
  IF built THEN [obj |-> <<>>, objs |-> st.objs, memo |-> st.memo]
  ELSE memoize_class(st, SimplexMatrix(1, 1))

\* The table's entry applied with the undecorated class of the result.
table_constructor_undecorated(st, cls, rows, columns) ==
  class_init(st, MatrixType(cls, rows, columns))

\* The table's entry applied to (rows, columns): the entries are the
\* module's names of the classes, which are the memoized ones.
table_constructor(st, cls, rows, columns) ==
  memoize_class(st, MatrixType(cls, rows, columns))

\* The body of _supremum on type objects: == is identity.
_supremum_objects(st, built, t, u) ==
  LET same(o) == [obj |-> o, objs |-> st.objs, memo |-> st.memo]
  IN IF t = u THEN same(t)
     ELSE IF t = TypeObject(bottom, 0) THEN same(u)
     ELSE IF u = TypeObject(bottom, 0) THEN same(t)
     ELSE IF t = TypeObject(top, 0) \/ u = TypeObject(top, 0)
          THEN same(TypeObject(top, 0))
     ELSE IF t = TypeObject(Tensor, 0) \/ u = TypeObject(Tensor, 0)
          THEN same(TypeObject(Tensor, 0))
     ELSE IF t.key.rows # u.key.rows \/ t.key.columns # u.key.columns
          THEN same(TypeObject(Tensor, 0))
     ELSE LET table == _lookup_build(st, built)
          IN table_constructor(InternState(table.objs, table.memo),
                               _lookup(t.key.cls, u.key.cls),
                               t.key.rows, t.key.columns)

\* Whether a call of _supremum's body reads the table.
ReadsTable(t, u) ==
  /\ t # u
  /\ isinstance_BMGMatrixType(t.key) /\ isinstance_BMGMatrixType(u.key)
  /\ t.key.rows = u.key.rows /\ t.key.columns = u.key.columns

NewTypesLeft(objs) ==
  Cardinality(objs) - Cardinality(ModuleTypeObjects) <= MaxNewTypes

\* A call of the matrix class of one of the two types the program works
\* with (or of with_dimensions on an object of that class).
Call_matrix_class ==
  /\ \E k \in {arg_t, arg_u} :
       /\ isinstance_BMGMatrixType(k)
       /\ LET made == memoize_class(InternState(type_objects, class_memo), k)
          IN /\ NewTypesLeft(made.objs)
             /\ type_objects' = made.objs
             /\ class_memo' = made.memo
  /\ UNCHANGED <<lookup_built, sup_memo>>
  /\ UNCHANGED latticeVars
  /\ UNCHANGED fixerVars
  /\ UNCHANGED builderVars

\* A call of _supremum on an object of each of the two types. @memoize on
\* _supremum: a call with the arguments of the entry it holds returns that
\* entry's result and runs nothing; any other call runs the body and is
\* the entry held from then on.
Call_supremum_objects ==
  /\ \E t \in type_objects, u \in type_objects :
       /\ t.key = arg_t
       /\ u.key = arg_u
       /\ IF sup_memo # <<>> /\ sup_memo.t = t /\ sup_memo.u = u
          THEN UNCHANGED internVars
          ELSE LET r == _supremum_objects(
                          InternState(type_objects, class_memo),
                          lookup_built, t, u)
               IN /\ NewTypesLeft(r.objs)
                  /\ type_objects' = r.objs
                  /\ class_memo' = r.memo
                  /\ lookup_built' = (lookup_built \/ ReadsTable(t, u))
                  /\ sup_memo' = [t |-> t, u |-> u, result |-> r.obj]
  /\ UNCHANGED latticeVars
  /\ UNCHANGED fixerVars
  /\ UNCHANGED builderVars

\* The module is loaded, and the program works with two types.
InternInit ==
  /\ arg_t \in LatticeTypes
  /\ arg_u \in LatticeTypes
  /\ arg_v = bottom
  /\ op = "idle"
  /\ res = <<>>
  /\ ModuleLoaded
  /\ NoFixer
  /\ BuilderEmpty

InternNext ==
  \/ Call_matrix_class
  \/ Call_supremum_objects

SpecIntern == InternInit /\ [][InternNext]_vars

LatticeInit ==
  /\ arg_t \in LatticeTypes
  /\ arg_u \in LatticeTypes
  /\ arg_v \in LatticeTypes
  /\ op = "none"
  /\ res = <<>>
  /\ ModuleLoaded
  /\ NoFixer
  /\ BuilderEmpty

Call_supremum ==
  /\ op = "none"
  /\ op' = "_supremum"
  /\ res' = [tu   |-> _supremum(arg_t, arg_u),
             ut   |-> _supremum(arg_u, arg_t),
             t_uv |-> _supremum(arg_t, _supremum(arg_u, arg_v)),
             tu_v |-> _supremum(_supremum(arg_t, arg_u), arg_v)]
  /\ UNCHANGED <<arg_t, arg_u, arg_v>>
  /\ UNCHANGED internVars
  /\ UNCHANGED fixerVars
  /\ UNCHANGED builderVars

Call_supremum_all ==
  /\ op = "none"
  /\ op' = "supremum"
  /\ res' = [all |-> supremum(<<arg_t, arg_u, arg_v>>)]
  /\ UNCHANGED <<arg_t, arg_u, arg_v>>
  /\ UNCHANGED internVars
  /\ UNCHANGED fixerVars
  /\ UNCHANGED builderVars

Call_meets_requirement ==
  /\ op = "none"
  /\ op' = "meets_requirement"
  /\ res' = [upper |-> meets_requirement(arg_t, upper_bound(arg_u)),
             exact |-> meets_requirement(arg_t, arg_u)]
  /\ UNCHANGED <<arg_t, arg_u, arg_v>>
  /\ UNCHANGED internVars
  /\ UNCHANGED fixerVars
  /\ UNCHANGED builderVars

LatticeNext ==
  \/ Call_supremum
  \/ Call_supremum_all
  \/ Call_meets_requirement

SpecLattice == LatticeInit /\ [][LatticeNext]_vars

(***************************************************************************)
(* bm_graph_builder.py: the nodes                                          *)
(***************************************************************************)

\* The values handed to the constant factories.
BooleanValues == {TRUE}
RealValues == {"0.5", "2.0"}
TensorValues == {"tensor([0.5, 2.0])"}

\* BMGNode.__init__: a node object holds its class, children and value.
BMGNode(kind, children, value) ==
  [kind |-> kind, children |-> children, value |-> value]

NoValue == "none"

ConstantNodeKinds == {"BooleanNode", "RealNode", "TensorNode"}
DistributionNodeKinds == {"BernoulliNode"}
UnaryOperatorNodeKinds == {"NegateNode", "ToRealNode", "ExpNode", "SampleNode"}
BinaryOperatorNodeKinds == {"AdditionNode", "MultiplicationNode"}
OperatorNodeKinds == UnaryOperatorNodeKinds \cup BinaryOperatorNodeKinds

\* The objects of the heap, by identity, and those of a class.
Objects(h) == 1..Len(h)
ObjectsOf(h, kinds) == {n \in Objects(h) : h[n].kind \in kinds}

BooleanNode(value) == BMGNode("BooleanNode", <<>>, value)
RealNode(value) == BMGNode("RealNode", <<>>, value)
TensorNode(value) == BMGNode("TensorNode", <<>>, value)
BernoulliNode(probability) == BMGNode("BernoulliNode", <<probability>>, NoValue)
AdditionNode(left, right) == BMGNode("AdditionNode", <<left, right>>, NoValue)
MultiplicationNode(left, right) ==
  BMGNode("MultiplicationNode", <<left, right>>, NoValue)
NegateNode(operand) == BMGNode("NegateNode", <<operand>>, NoValue)
ToRealNode(operand) == BMGNode("ToRealNode", <<operand>>, NoValue)
ExpNode(operand) == BMGNode("ExpNode", <<operand>>, NoValue)
SampleNode(operand) == BMGNode("SampleNode", <<operand>>, NoValue)
Observation(observed, value) == BMGNode("Observation", <<observed, value>>, NoValue)
Query(operator) == BMGNode("Query", <<operator>>, NoValue)

(***************************************************************************)
(* bm_graph_builder.py: BMGraphBuilder                                     *)
(***************************************************************************)

\* "node in self.nodes": the keys of the dict are node objects.
InNodes(ns, n) == \E i \in 1..Len(ns) : ns[i].node = n

\* self.nodes[node]
IndexOf(ns, n) == ns[CHOOSE i \in 1..Len(ns) : ns[i].node = n].index

\* add_node placing the node before its children.
RECURSIVE add_node_parent_first(_, _, _)
add_node_parent_first(h, ns, n) ==
  IF InNodes(ns, n) THEN ns
  ELSE LET RECURSIVE each(_, _)
           each(acc, i) ==
             IF i > Len(h[n].children) THEN acc
             ELSE each(add_node_parent_first(h, acc, h[n].children[i]), i + 1)
       IN each(Append(ns, [node |-> n, index |-> Len(ns)]), 1)

\* add_node taking len(self.nodes) before it adds the children.
RECURSIVE add_node_index_before_children(_, _, _)
add_node_index_before_children(h, ns, n) ==
  IF InNodes(ns, n) THEN ns
  ELSE LET RECURSIVE add_children(_, _)
           add_children(acc, i) ==
             IF i > Len(h[n].children) THEN acc
             ELSE add_children(
                    add_node_index_before_children(h, acc, h[n].children[i]),
                    i + 1)
       IN Append(add_children(ns, 1), [node |-> n, index |-> Len(ns)])

\* add_node: the children first, in order, then the node at index len(nodes).
RECURSIVE add_node(_, _, _)
add_node(h, ns, n) ==
  IF InNodes(ns, n) THEN ns
  ELSE LET RECURSIVE add_children(_, _)
           add_children(acc, i) ==
             IF i > Len(h[n].children) THEN acc
             ELSE add_children(add_node(h, acc, h[n].children[i]), i + 1)
           added == add_children(ns, 1)
       IN Append(added, [node |-> n, index |-> Len(added)])

\* The constants the client's constant factory makes.
ClientConstants ==
  {BooleanNode(b) : b \in {v \in BooleanValues : "add_boolean" \in client}}
  \cup {RealNode(x) : x \in {v \in RealValues : "add_real" \in client}}
  \cup {TensorNode(x) : x \in {v \in TensorValues : "add_tensor" \in client}}

\* The nodes a call constructs on the spot to pass as arguments: constants
\* the builder has not seen, in the order of their construction.
FreshConstants(n) == UNION {[1..k -> ClientConstants] : k \in 0..n}

\* A factory call: the arguments are objects of the heap or constants
\* constructed for the call, each of its annotated class; the factory
\* constructs the node over them and adds it to the builder. The program
\* calls the factories before it calls to_bmg.
Factory(name, kind, classes) ==
  /\ op = "idle"
  /\ name \in client
  /\ \E fresh \in FreshConstants(Len(classes)) :
       LET h == heap \o fresh
       IN /\ Len(h) < MaxNodes
          /\ \E children \in [1..Len(classes) -> Objects(h)] :
               /\ \A i \in 1..Len(classes) : h[children[i]].kind \in classes[i]
               /\ \A f \in (Len(heap) + 1)..Len(h) :
                    \E i \in 1..Len(classes) : children[i] = f
               /\ heap' = Append(h, BMGNode(kind, children, NoValue))
               /\ nodes' = add_node(heap', nodes, Len(heap'))
  /\ UNCHANGED client
  /\ UNCHANGED latticeVars
  /\ UNCHANGED internVars
  /\ UNCHANGED fixerVars

\* A constant factory: construct the constant, add it to the builder.
ConstantFactory(name, node) ==
  /\ op = "idle"
  /\ name \in client
  /\ Len(heap) < MaxNodes
  /\ heap' = Append(heap, node)
  /\ nodes' = add_node(heap', nodes, Len(heap'))
  /\ UNCHANGED client
  /\ UNCHANGED latticeVars
  /\ UNCHANGED internVars
  /\ UNCHANGED fixerVars

BMGNodeKinds == ConstantNodeKinds \cup OperatorNodeKinds

add_real == \E x \in RealValues : ConstantFactory("add_real", RealNode(x))

add_boolean == \E b \in BooleanValues : ConstantFactory("add_boolean", BooleanNode(b))

add_tensor == \E x \in TensorValues : ConstantFactory("add_tensor", TensorNode(x))

add_bernoulli == Factory("add_bernoulli", "BernoulliNode", <<BMGNodeKinds>>)

add_addition ==
  Factory("add_addition", "AdditionNode", <<BMGNodeKinds, BMGNodeKinds>>)

add_multiplication ==
  Factory("add_multiplication", "MultiplicationNode", <<BMGNodeKinds, BMGNodeKinds>>)

add_negate == Factory("add_negate", "NegateNode", <<BMGNodeKinds>>)

add_to_real == Factory("add_to_real", "ToRealNode", <<BMGNodeKinds>>)

add_exp == Factory("add_exp", "ExpNode", <<BMGNodeKinds>>)

add_sample == Factory("add_sample", "SampleNode", <<DistributionNodeKinds>>)

add_observation ==
  Factory("add_observation", "Observation", <<{"SampleNode"}, ConstantNodeKinds>>)

add_query == Factory("add_query", "Query", <<OperatorNodeKinds>>)

\* builder.add_node(node) on a node the builder holds already.
Call_add_node ==
  /\ op = "idle"
  /\ \E n \in Objects(heap) :
       /\ InNodes(nodes, n)
       /\ nodes' = add_node(heap, nodes, n)
  /\ UNCHANGED <<client, heap>>
  /\ UNCHANGED latticeVars
  /\ UNCHANGED internVars
  /\ UNCHANGED fixerVars

\* The factories of the builder, by what they construct.
ConstantFactories == {"add_real", "add_boolean", "add_tensor"}
UnaryFactories == {"add_negate", "add_to_real", "add_exp"}
BinaryFactories == {"add_addition", "add_multiplication"}
OtherFactories == {"add_bernoulli", "add_sample", "add_observation", "add_query"}

\* A client program calls one constant factory, one unary and one binary
\* operator factory, and the distribution, sample, observation and query
\* factories.
Clients ==
  {{c, u, b} \cup OtherFactories :
     c \in ConstantFactories, u \in UnaryFactories, b \in BinaryFactories}

(***************************************************************************)
(* Values, and bmg_types.py: type_of_value and _type_of_matrix             *)
(***************************************************************************)

\* A Python scalar: its class, and twice its value (so that 0.5 is 1).
PyBool(b) == [py |-> "bool", twice |-> IF b THEN 2 ELSE 0]
PyInt(n) == [py |-> "int", twice |-> 2 * n]
PyFloat(twice) == [py |-> "float", twice |-> twice]

\* A value of a class type_of_value does not know: a str, None.
PyObject(class) == [py |-> class]

\* A torch.Tensor: its shape, and its elements (each twice its value) in
\* row-major order.
torch_tensor(shape, data) == [py |-> "Tensor", shape |-> shape, data |-> data]

\* v.numel()
numel(v) == Len(v.data)

\* float(v) of a bool, an int, a float or a tensor of one element.
float(v) == PyFloat(IF v.py = "Tensor" THEN v.data[1] ELSE v.twice)

\* The element i of a matrix when it is iterated row by row: a tensor of
\* no dimensions.
element(v, i) == torch_tensor(<<>>, <<v.data[i]>>)

\* A call that raises instead of returning a type.
PyRaise(exception) == [raised |-> exception]

\* type_of_value on an int, testing v >= 1 where the code tests v == 1.
type_of_int_one_or_more(v) ==
  IF v = 0 THEN Zero
  ELSE IF v >= 1 THEN One
  ELSE IF v >= 2 THEN Natural
  ELSE NegativeReal

\* type_of_value on an int.
type_of_int(v) ==
  IF v = 0 THEN Zero
  ELSE IF v = 1 THEN One
  ELSE IF v >= 2 THEN Natural
  ELSE NegativeReal

\* sup.with_dimensions(r, c)
with_dimensions(t, r, c) == MatrixType(t.cls, r, c)

\* float(row.sum()) of row k of the r x c view, twice its value.
RECURSIVE row_sum(_, _, _, _)
row_sum(v, c, k, j) ==
  IF j = 0 THEN 0 ELSE v.data[(k - 1) * c + j] + row_sum(v, c, k, j - 1)

\* all(abs(float(row.sum()) - 1.0) <= simplex_precision for row in v): the
\* elements are multiples of 0.5, so a sum within 1e-10 of 1 is 1.
sums_to_one(v, r, c) == \A k \in 1..r : row_sum(v, c, k, c) = 2

\* _type_of_matrix from the test of sup on, with the one-hot and simplex
\* results exchanged.
_type_of_matrix_rows_exchanged(v, sup, r, c) ==
  IF sup \in {Real, PositiveReal, NegativeReal, Natural}
  THEN with_dimensions(sup, r, c)
  ELSE IF sup \notin {Boolean, Zero, One, Probability}
  THEN PyRaise("AssertionError")
  ELSE IF sums_to_one(v, r, c)
  THEN (IF sup = Probability THEN OneHotMatrix(r, c) ELSE SimplexMatrix(r, c))
  ELSE IF sup = Probability THEN with_dimensions(sup, r, c)
  ELSE IF sup = Zero THEN with_dimensions(sup, r, c)
  ELSE BooleanMatrix(r, c)

\* _type_of_matrix from "if sup in {Real, PositiveReal, NegativeReal,
\* Natural}" on: sup is the supremum of the types of the elements.
_type_of_matrix_rows(v, sup, r, c) ==
  IF sup \in {Real, PositiveReal, NegativeReal, Natural}
  THEN with_dimensions(sup, r, c)
  ELSE IF sup \notin {Boolean, Zero, One, Probability}
  THEN PyRaise("AssertionError")
  ELSE IF sums_to_one(v, r, c)
  THEN (IF sup = Probability THEN SimplexMatrix(r, c) ELSE OneHotMatrix(r, c))
  ELSE IF sup = Probability THEN with_dimensions(sup, r, c)
  ELSE IF sup = Zero THEN with_dimensions(sup, r, c)
  ELSE BooleanMatrix(r, c)

\* _type_of_matrix after the test of numel, returning Tensor from four
\* dimensions on instead of three.
_type_of_matrix_shaped_rank_3(v, sup) ==
  LET dimensions == Len(v.shape)
      r == IF dimensions = 1 THEN 1 ELSE v.shape[1]
      c == IF dimensions = 1 THEN v.shape[1] ELSE v.shape[2]
  IN IF dimensions > 3 THEN Tensor
     ELSE IF ~isinstance_BMGMatrixType(sup) THEN PyRaise("AssertionError")
     ELSE IF sup.rows # 1 \/ sup.columns # 1 THEN PyRaise("AssertionError")
     ELSE _type_of_matrix_rows(v, sup, r, c)

\* _type_of_matrix after the test of numel: the shape, then the asserts on
\* the supremum of the types of the elements.
_type_of_matrix_shaped(v, sup) ==
  LET dimensions == Len(v.shape)
      r == IF dimensions = 1 THEN 1 ELSE v.shape[1]
      c == IF dimensions = 1 THEN v.shape[1] ELSE v.shape[2]
  IN IF dimensions > 2 THEN Tensor
     ELSE IF ~isinstance_BMGMatrixType(sup) THEN PyRaise("AssertionError")
     ELSE IF sup.rows # 1 \/ sup.columns # 1 THEN PyRaise("AssertionError")
     ELSE _type_of_matrix_rows(v, sup, r, c)

RECURSIVE type_of_value(_)
RECURSIVE _type_of_matrix(_)

\* _type_of_matrix: a tensor of one element is typed as the float it holds,
\* whatever its shape.
_type_of_matrix(v) ==
  IF numel(v) = 1 THEN type_of_value(float(v))
  ELSE _type_of_matrix_shaped(
         v, supremum([i \in 1..numel(v) |-> type_of_value(element(v, i))]))

\* type_of_value: the smallest type the value fits into.
type_of_value(v) ==
  IF v.py = "Tensor" THEN _type_of_matrix(v)
  ELSE IF v.py = "bool" THEN (IF v.twice = 2 THEN One ELSE Zero)
  ELSE IF v.py = "int" THEN type_of_int(v.twice \div 2)
  ELSE IF v.py = "float"
  THEN IF v.twice % 2 = 0 THEN type_of_int(v.twice \div 2)
       ELSE IF 0 <= v.twice
            THEN (IF v.twice <= 2 THEN Probability ELSE PositiveReal)
       ELSE NegativeReal
  ELSE PyRaise("ValueError")

(***************************************************************************)
(* type_of_value applied to every choice of value                          *)
(***************************************************************************)

\* The elements of the tensors, twice their values: -1, 0, 0.5, 1, 1.5, 2.
ElementValues == {-2, 0, 1, 2, 3, 4}

\* The shapes of the tensors: no dimensions, vectors, matrices, and tensors
\* of three dimensions.
TensorShapes ==
  {<<>>}
  \cup {<<c>> : c \in 1..MaxColumns}
  \cup {<<r, c>> : r \in 1..MaxRows, c \in 1..MaxColumns}
  \cup {<<1, 1, c>> : c \in 1..MaxColumns}

RECURSIVE shape_numel(_)
shape_numel(shape) ==
  IF shape = <<>> THEN 1 ELSE Head(shape) * shape_numel(Tail(shape))

\* The values that are no tensors: bools, ints from -2 to 3, floats from
\* -2.5 to 3.0 in steps of 0.5, a str and None.
ScalarValues ==
  {PyBool(b) : b \in BOOLEAN}
  \cup {PyInt(n) : n \in -2..3}
  \cup {PyFloat(x) : x \in -5..6}
  \cup {PyObject("str"), PyObject("NoneType")}

\* The value handed to type_of_value is one of these or a tensor.
ValuesInit ==
  /\ arg_t = bottom
  /\ arg_u = bottom
  /\ \/ arg_v \in ScalarValues
     \/ \E shape \in TensorShapes :
          \E data \in [1..shape_numel(shape) -> ElementValues] :
            arg_v = torch_tensor(shape, data)
  /\ op = "none"
  /\ res = <<>>
  /\ ModuleLoaded
  /\ NoFixer
  /\ BuilderEmpty

\* type_of_value(v)
Call_type_of_value ==
  /\ op = "none"
  /\ op' = "type_of_value"
  /\ res' = [type |-> type_of_value(arg_v)]
  /\ UNCHANGED <<arg_t, arg_u, arg_v>>
  /\ UNCHANGED internVars
  /\ UNCHANGED fixerVars
  /\ UNCHANGED builderVars

\* type_of_value(n) and type_of_value(float(n)) of a bool or an int n.
Call_type_of_value_float ==
  /\ op = "none"
  /\ arg_v.py \in {"bool", "int"}
  /\ op' = "type_of_value_float"
  /\ res' = [type |-> type_of_value(arg_v),
             of_float |-> type_of_value(float(arg_v))]
  /\ UNCHANGED <<arg_t, arg_u, arg_v>>
  /\ UNCHANGED internVars
  /\ UNCHANGED fixerVars
  /\ UNCHANGED builderVars

ValuesNext ==
  \/ Call_type_of_value
  \/ Call_type_of_value_float

SpecValues == ValuesInit /\ [][ValuesNext]_vars

(***************************************************************************)
(* The nodes the fixer works on: types, requirements, edge labels          *)
(***************************************************************************)

\* A constant of a type: Boolean(b), Natural(n), Probability(p), ...
ConstantNode(value, type) ==
  BMGNode("ConstantNode", <<>>, [value |-> value, type |-> type])

ToPositiveRealNode(operand) == BMGNode("ToPositiveRealNode", <<operand>>, NoValue)
ToProbabilityNode(operand) == BMGNode("ToProbabilityNode", <<operand>>, NoValue)
PowerNode(left, right) == BMGNode("PowerNode", <<left, right>>, NoValue)
IfThenElseNode(condition, consequence, alternative) ==
  BMGNode("IfThenElseNode", <<condition, consequence, alternative>>, NoValue)

\* isinstance(node, bn.ConstantNode), bn.DistributionNode, bn.MapNode,
\* bn.OperatorNode
isinstance_ConstantNode(h, n) == h[n].kind = "ConstantNode"
isinstance_DistributionNode(h, n) == h[n].kind = "BernoulliNode"
isinstance_MapNode(h, n) == h[n].kind = "MapNode"
isinstance_OperatorNode(h, n) ==
  h[n].kind \in {"SampleNode", "ToRealNode", "ToPositiveRealNode",
                 "ToProbabilityNode", "AdditionNode", "MultiplicationNode",
                 "PowerNode", "IfThenElseNode"}

\* node.inf_type: the smallest type the node can be converted to.
RECURSIVE inf_type(_, _)
inf_type(h, n) ==
  LET kind == h[n].kind
      inf(i) == inf_type(h, h[n].children[i])
  IN CASE kind = "ConstantNode" -> type_of_value(h[n].value.value)
       [] kind = "BernoulliNode" -> Boolean
       [] kind = "SampleNode" -> inf(1)
       [] kind = "ToRealNode" -> Real
       [] kind = "ToPositiveRealNode" -> PositiveReal
       [] kind = "ToProbabilityNode" -> Probability
       [] kind = "AdditionNode" -> supremum(<<inf(1), inf(2), PositiveReal>>)
       [] kind = "MultiplicationNode" ->
            supremum(<<inf(1), inf(2), Probability>>)
       [] kind = "PowerNode" -> supremum(<<inf(1), inf(2)>>)
       [] kind = "IfThenElseNode" -> supremum(<<inf(2), inf(3)>>)
       [] OTHER -> Malformed

\* node.graph_type: the type the node has now, given its inputs' types.
RECURSIVE graph_type(_, _)
graph_type(h, n) ==
  LET kind == h[n].kind
      gt(i) == graph_type(h, h[n].children[i])
      at_least(t, least) == t # Malformed /\ _supremum(t, least) = t
  IN CASE kind = "ConstantNode" -> h[n].value.type
       [] kind = "BernoulliNode" -> Boolean
       [] kind = "SampleNode" -> gt(1)
       [] kind = "ToRealNode" -> Real
       [] kind = "ToPositiveRealNode" -> PositiveReal
       [] kind = "ToProbabilityNode" -> Probability
       [] kind = "AdditionNode" ->
            IF gt(1) = gt(2) /\ at_least(gt(1), PositiveReal)
            THEN gt(1) ELSE Malformed
       [] kind = "MultiplicationNode" ->
            IF gt(1) = gt(2) /\ at_least(gt(1), Probability)
            THEN gt(1) ELSE Malformed
       [] kind = "PowerNode" ->
            IF gt(1) # Malformed /\ gt(2) # Malformed /\ gt(2) # Boolean
            THEN gt(1) ELSE Malformed
       [] kind = "IfThenElseNode" ->
            IF gt(1) = Boolean /\ gt(2) = gt(3) THEN gt(2) ELSE Malformed
       [] OTHER -> Malformed

\* node.requirements: one requirement for each input edge.
requirements(h, n) ==
  LET kind == h[n].kind
      inf(i) == inf_type(h, h[n].children[i])
  IN CASE kind = "BernoulliNode" -> <<Probability>>
       [] kind = "SampleNode" -> <<inf(1)>>
       [] kind = "ToRealNode" -> <<upper_bound(Real)>>
       [] kind = "ToPositiveRealNode" -> <<upper_bound(PositiveReal)>>
       [] kind = "ToProbabilityNode" -> <<upper_bound(Real)>>
       [] kind = "AdditionNode" ->
            LET s == supremum(<<inf(1), inf(2), PositiveReal>>) IN <<s, s>>
       [] kind = "MultiplicationNode" ->
            LET s == supremum(<<inf(1), inf(2), Probability>>) IN <<s, s>>
       [] kind = "PowerNode" -> <<inf(1), inf(2)>>
       [] kind = "IfThenElseNode" ->
            LET t == supremum(<<inf(2), inf(3)>>) IN <<Boolean, t, t>>
       [] OTHER -> <<>>

\* get_edge_labels(node)
get_edge_labels(h, n) ==
  LET kind == h[n].kind
  IN CASE kind = "BernoulliNode" -> <<"probability">>
       [] kind \in {"AdditionNode", "MultiplicationNode", "PowerNode"} ->
            <<"left", "right">>
       [] kind = "IfThenElseNode" ->
            <<"condition", "consequence", "alternative">>
       [] kind = "ConstantNode" -> <<>>
       [] OTHER -> <<"operand">>

\* bt.requirement_to_type, bt.must_be_matrix, and the two "meets" of bt.
requirement_to_type(r) == IF isinstance_UpperBound(r) THEN r.bound ELSE r

must_be_matrix(r) ==
  LET t == requirement_to_type(r)
  IN isinstance_BMGMatrixType(t) /\ (t.rows # 1 \/ t.columns # 1)

type_meets_requirement(t, r) == meets_requirement(t, r)

node_meets_requirement(h, n, r) == meets_requirement(graph_type(h, n), r)

(***************************************************************************)
(* The builder the fixer adds nodes to                                     *)
(***************************************************************************)

NoException == "none"

\* The builder and the fixer's error report as one value, with the
\* exception that is propagating, if one is.
Graph(h, ns, dd, errs, raised) ==
  [heap |-> h, nodes |-> ns, dedup |-> dd, errors |-> errs, raised |-> raised]

\* What a call returns: the graph it leaves and the node it returns.
Return(g, n) == [g |-> g, node |-> n]
Raise(g, exception) == [g |-> [g EXCEPT !.raised = exception], node |-> 0]
Raised(r) == r.g.raised # NoException

\* A factory of the builder: the node made earlier from the same class,
\* inputs and value if there is one, else a new node added to the builder.
bmg_add(g, made) ==
  IF \E n \in 1..Len(g.dedup) : g.dedup[n] = made
  THEN Return(g, CHOOSE n \in 1..Len(g.dedup) : g.dedup[n] = made)
  ELSE LET h == Append(g.heap, made)
       IN Return([g EXCEPT !.heap = h,
                           !.dedup = Append(@, made),
                           !.nodes = add_node(h, @, Len(h))],
                 Len(h))

add_constant_of_type(g, value, type) == bmg_add(g, ConstantNode(value, type))
add_constant_of_matrix_type(g, value, type) ==
  bmg_add(g, ConstantNode(value, type))
add_if_then_else(g, condition, consequence, alternative) ==
  bmg_add(g, IfThenElseNode(condition, consequence, alternative))
bmg_add_to_real(g, operand) == bmg_add(g, ToRealNode(operand))
add_to_positive_real(g, operand) == bmg_add(g, ToPositiveRealNode(operand))
add_to_probability(g, operand) == bmg_add(g, ToProbabilityNode(operand))

\* _traverse_from_roots: the nodes of the builder, in insertion order, as
\* they are when the call is made.
_traverse_from_roots(g) == [i \in 1..Len(g.nodes) |-> g.nodes[i].node]

\* Violation(node, requirement, consumer, edge)
Violation(node, requirement, consumer, edge) ==
  [node |-> node, requirement |-> requirement, consumer |-> consumer,
   edge |-> edge]

\* errors.add_error(violation)
add_error(g, violation) == [g EXCEPT !.errors = Append(@, violation)]

(***************************************************************************)
(* fix_requirements.py: RequirementsFixer                                  *)
(***************************************************************************)

\* The name Tensor in fix_requirements.py: the class imported from torch.
torch_Tensor == MarkerType("torch.Tensor")

_meet_distribution_requirement(g, node, requirement, consumer, edge) ==
  IF g.heap[consumer].kind # "SampleNode" THEN Raise(g, "AssertionError")
  ELSE IF requirement # inf_type(g.heap, node)
  THEN Raise(g, "AssertionError")
  ELSE Return(g, node)

_meet_map_requirement(g, node, requirement, consumer, edge) ==
  IF g.heap[consumer].kind # "IndexNodeDeprecated"
  THEN Raise(g, "AssertionError")
  ELSE IF requirement # inf_type(g.heap, node)
  THEN Raise(g, "AssertionError")
  ELSE Return(g, node)

\* _can_force_to_prob without "or inf_type == bt.PositiveReal".
_can_force_to_prob_real_only(it, requirement) ==
  /\ requirement = Probability \/ requirement = upper_bound(Probability)
  /\ it = Real

\* _can_force_to_prob without the test of inf_type.
_can_force_to_prob_any_type(it, requirement) ==
  requirement = Probability \/ requirement = upper_bound(Probability)

_can_force_to_prob(it, requirement) ==
  /\ requirement = Probability \/ requirement = upper_bound(Probability)
  /\ it = Real \/ it = PositiveReal

RECURSIVE meet_requirement(_, _, _, _, _)
RECURSIVE _meet_operator_requirement(_, _, _, _, _)
RECURSIVE _convert_node(_, _, _, _, _)
RECURSIVE _convert_malformed_multiplication(_, _, _, _, _)
RECURSIVE _convert_malformed_power(_, _, _, _, _)

\* assert bt.node_meets_requirement(result, requirement); return result
assert_meets(result, requirement) ==
  IF Raised(result) THEN result
  ELSE IF ~node_meets_requirement(result.g.heap, result.node, requirement)
  THEN Raise(result.g, "AssertionError")
  ELSE result

\* self.bmg.add_if_then_else(condition, consequence, constant), on the
\* builder that adding the constant left.
if_then_else_over(constant, condition, consequence) ==
  add_if_then_else(constant.g, condition, consequence, constant.node)

\* assert if_then_else.graph_type == type;
\* return self.meet_requirement(if_then_else, requirement, consumer, edge)
meet_converted(if_then_else, type, requirement, consumer, edge) ==
  IF graph_type(if_then_else.g.heap, if_then_else.node) # type
  THEN Raise(if_then_else.g, "AssertionError")
  ELSE meet_requirement(if_then_else.g, if_then_else.node, requirement,
                        consumer, edge)

\* _meet_constant_requirement without the conversion of lines 55-69.
_meet_constant_requirement_unconverted(g, node, requirement, consumer, edge) ==
  IF node_meets_requirement(g.heap, node, requirement) THEN Return(g, node)
  ELSE Return(add_error(g, Violation(node, requirement, consumer, edge)),
              node)

_meet_constant_requirement(g, node, requirement, consumer, edge) ==
  IF node_meets_requirement(g.heap, node, requirement) THEN Return(g, node)
  ELSE IF type_meets_requirement(inf_type(g.heap, node),
                                 upper_bound(requirement))
  THEN LET required_type == requirement_to_type(requirement)
           value == g.heap[node].value.value
       IN assert_meets(
            IF must_be_matrix(requirement)
            THEN IF ~isinstance_BMGMatrixType(required_type)
                 THEN Raise(g, "AssertionError")
                 ELSE add_constant_of_matrix_type(g, value, required_type)
            ELSE add_constant_of_type(g, value, required_type),
            requirement)
  ELSE Return(add_error(g, Violation(node, requirement, consumer, edge)),
              node)

_convert_malformed_multiplication(g, node, requirement, consumer, edge) ==
  LET h == g.heap
      left == h[node].children[1]
      right == h[node].children[2]
      lgt == graph_type(h, left)
      rgt == graph_type(h, right)
  IN IF graph_type(h, node) # Malformed THEN Raise(g, "AssertionError")
     ELSE IF supremum(<<inf_type(h, node), requirement>>) # requirement
     THEN Raise(g, "AssertionError")
     ELSE IF ~(lgt # Malformed /\ rgt # Malformed)
     THEN Raise(g, "AssertionError")
     ELSE IF ~(lgt = Boolean \/ rgt = Boolean)
     THEN Raise(g, "AssertionError")
     ELSE IF lgt = Boolean
     THEN meet_converted(
            if_then_else_over(add_constant_of_type(g, PyFloat(0), rgt),
                              left, right),
            rgt, requirement, consumer, edge)
     ELSE meet_converted(
            if_then_else_over(add_constant_of_type(g, PyFloat(0), lgt),
                              right, left),
            lgt, requirement, consumer, edge)

_convert_malformed_power(g, node, requirement, consumer, edge) ==
  LET h == g.heap
      left == h[node].children[1]
      right == h[node].children[2]
      lgt == graph_type(h, left)
      rgt == graph_type(h, right)
  IN IF graph_type(h, node) # Malformed THEN Raise(g, "AssertionError")
     ELSE IF supremum(<<inf_type(h, node), requirement>>) # requirement
     THEN Raise(g, "AssertionError")
     ELSE IF lgt = Malformed THEN Raise(g, "AssertionError")
     ELSE IF rgt # Boolean THEN Raise(g, "AssertionError")
     ELSE meet_converted(
            if_then_else_over(add_constant_of_type(g, PyFloat(2), lgt),
                              right, left),
            lgt, requirement, consumer, edge)

\* one = self.bmg.add_constant_of_type(1.0, requirement), on the builder
\* that adding zero left; return self.bmg.add_if_then_else(node, one, zero)
if_then_else_one_zero(zero, node, requirement) ==
  LET one == add_constant_of_type(zero.g, PyFloat(2), requirement)
  IN add_if_then_else(one.g, node, one.node, zero.node)

_convert_node(g, node, requirement, consumer, edge) ==
  LET h == g.heap
  IN IF graph_type(h, node) = requirement THEN Raise(g, "AssertionError")
     ELSE IF supremum(<<inf_type(h, node), requirement>>) # requirement
     THEN Raise(g, "AssertionError")
     ELSE IF h[node].kind = "MultiplicationNode"
             /\ graph_type(h, node) = Malformed
     THEN _convert_malformed_multiplication(g, node, requirement, consumer,
                                            edge)
     ELSE IF h[node].kind = "PowerNode" /\ graph_type(h, node) = Malformed
     THEN _convert_malformed_power(g, node, requirement, consumer, edge)
     ELSE IF requirement = torch_Tensor THEN Raise(g, "ValueError")
     ELSE IF requirement = Real THEN bmg_add_to_real(g, node)
     ELSE IF requirement = PositiveReal THEN add_to_positive_real(g, node)
     ELSE IF ~(requirement = Natural \/ requirement = Probability)
     THEN Raise(g, "AssertionError")
     ELSE IF supremum(<<inf_type(h, node), Boolean>>) # Boolean
     THEN Raise(g, "AssertionError")
     ELSE if_then_else_one_zero(
            add_constant_of_type(g, PyFloat(0), requirement), node,
            requirement)

\* result = self.bmg.add_to_probability(operand)
to_probability_of(operand) ==
  IF Raised(operand) THEN operand
  ELSE add_to_probability(operand.g, operand.node)

_meet_operator_requirement(g, node, requirement, consumer, edge) ==
  LET it == inf_type(g.heap, node)
  IN IF node_meets_requirement(g.heap, node, requirement)
     THEN Return(g, node)
     ELSE IF ~type_meets_requirement(it, upper_bound(requirement))
     THEN IF _can_force_to_prob(it, requirement)
          THEN assert_meets(
                 to_probability_of(
                   meet_requirement(g, node, it, consumer, edge)),
                 requirement)
          ELSE Return(add_error(g, Violation(node, requirement, consumer,
                                             edge)),
                      node)
     ELSE assert_meets(
            _convert_node(g, node,
                          IF ~isinstance_UpperBound(requirement)
                          THEN requirement ELSE it,
                          consumer, edge),
            requirement)

meet_requirement(g, node, requirement, consumer, edge) ==
  IF g.heap[node].kind = "Observation" THEN Raise(g, "AssertionError")
  ELSE IF g.heap[node].kind = "Query" THEN Raise(g, "AssertionError")
  ELSE IF isinstance_ConstantNode(g.heap, node)
  THEN _meet_constant_requirement(g, node, requirement, consumer, edge)
  ELSE IF isinstance_DistributionNode(g.heap, node)
  THEN _meet_distribution_requirement(g, node, requirement, consumer, edge)
  ELSE IF isinstance_MapNode(g.heap, node)
  THEN _meet_map_requirement(g, node, requirement, consumer, edge)
  ELSE IF isinstance_OperatorNode(g.heap, node)
  THEN _meet_operator_requirement(g, node, requirement, consumer, edge)
  ELSE Raise(g, "AssertionError")

\* fix_problems without the assignment to node.inputs[i].
write_input_dropped(met, node, i) == met.g

\* node.inputs[i] = met, unless the call raised.
write_input(met, node, i) ==
  IF Raised(met) THEN met.g
  ELSE [met.g EXCEPT !.heap[node].children[i] = met.node]

\* The loop over the edges of one node of fix_problems, from edge i on.
RECURSIVE fix_edges(_, _, _, _, _)
fix_edges(g, node, reqs, edges, i) ==
  IF g.raised # NoException \/ i > Len(reqs) THEN g
  ELSE fix_edges(
         write_input(meet_requirement(g, g.heap[node].children[i], reqs[i],
                                      node, edges[i]),
                     node, i),
         node, reqs, edges, i + 1)

\* The loop over the nodes of fix_problems.
RECURSIVE fix_nodes(_, _)
fix_nodes(g, todo) ==
  IF g.raised # NoException \/ todo = <<>> THEN g
  ELSE fix_nodes(fix_edges(g, Head(todo), requirements(g.heap, Head(todo)),
                           get_edge_labels(g.heap, Head(todo)), 1),
                 Tail(todo))

fix_problems(g) == fix_nodes(g, _traverse_from_roots(g))

(***************************************************************************)
(* Programs that build a graph and run the fixer on it                     *)
(***************************************************************************)

\* The constant each constant factory is called for.
FixerConstantOf ==
  [add_boolean |-> ConstantNode(PyBool(TRUE), Boolean),
   add_natural |-> ConstantNode(PyInt(2), Natural),
   add_probability |-> ConstantNode(PyFloat(1), Probability),
   add_pos_real |-> ConstantNode(PyFloat(3), PositiveReal),
   add_neg_real |-> ConstantNode(PyFloat(-3), NegativeReal),
   add_real |-> ConstantNode(PyFloat(1), Real),
   add_tensor |->
     ConstantNode(torch_tensor(<<1, 1, 2>>, <<1, 4>>), Tensor)]

FixerConstantFactories == DOMAIN FixerConstantOf

\* The operator and distribution factories: the class made, and which
\* nodes each argument may be (a distribution, or a value).
FixerFactoryOf ==
  [add_bernoulli |-> [kind |-> "BernoulliNode", dist |-> <<FALSE>>],
   add_sample |-> [kind |-> "SampleNode", dist |-> <<TRUE>>],
   add_to_real |-> [kind |-> "ToRealNode", dist |-> <<FALSE>>],
   add_to_positive_real |->
     [kind |-> "ToPositiveRealNode", dist |-> <<FALSE>>],
   add_to_probability |-> [kind |-> "ToProbabilityNode", dist |-> <<FALSE>>],
   add_addition |-> [kind |-> "AdditionNode", dist |-> <<FALSE, FALSE>>],
   add_multiplication |->
     [kind |-> "MultiplicationNode", dist |-> <<FALSE, FALSE>>],
   add_power |-> [kind |-> "PowerNode", dist |-> <<FALSE, FALSE>>],
   add_if_then_else |->
     [kind |-> "IfThenElseNode", dist |-> <<FALSE, FALSE, FALSE>>]]

FixerOperatorFactories ==
  DOMAIN FixerFactoryOf \ {"add_bernoulli", "add_sample"}

\* A program calls one constant factory, two operator factories, and the
\* Bernoulli and sample factories.
FixerClients ==
  {{c, o1, o2, "add_bernoulli", "add_sample"} :
     c \in FixerConstantFactories,
     o1 \in FixerOperatorFactories, o2 \in FixerOperatorFactories}

\* A call of a constant factory of the builder, in a program that makes
\* fewer than limit nodes.
Constant_factory_call(limit) ==
  /\ fix_pc = "none"
  /\ Len(heap) < limit
  /\ \E name \in client \cap FixerConstantFactories :
       LET r == bmg_add(Graph(heap, nodes, dedup, errors, NoException),
                        FixerConstantOf[name])
       IN /\ heap' = r.g.heap
          /\ nodes' = r.g.nodes
          /\ dedup' = r.g.dedup
  /\ UNCHANGED <<errors, fix_pc, client>>
  /\ UNCHANGED latticeVars
  /\ UNCHANGED internVars

\* A call of a distribution or operator factory on nodes of the builder.
Operator_factory_call(limit) ==
  /\ fix_pc = "none"
  /\ Len(heap) < limit
  /\ \E name \in client \cap DOMAIN FixerFactoryOf :
       LET f == FixerFactoryOf[name]
       IN \E inputs \in [1..Len(f.dist) -> Objects(heap)] :
            /\ \A i \in 1..Len(f.dist) :
                 isinstance_DistributionNode(heap, inputs[i]) = f.dist[i]
            /\ LET r == bmg_add(
                          Graph(heap, nodes, dedup, errors, NoException),
                          BMGNode(f.kind, inputs, NoValue))
               IN /\ heap' = r.g.heap
                  /\ nodes' = r.g.nodes
                  /\ dedup' = r.g.dedup
  /\ UNCHANGED <<errors, fix_pc, client>>
  /\ UNCHANGED latticeVars
  /\ UNCHANGED internVars

Call_constant_factory == Constant_factory_call(MaxNodes)

Call_operator_factory == Operator_factory_call(MaxNodes)

\* RequirementsFixer(bmg).fix_problems()
Call_fix_problems ==
  /\ fix_pc = "none"
  /\ heap # <<>>
  /\ LET g == fix_problems(Graph(heap, nodes, dedup, <<>>, NoException))
     IN /\ heap' = g.heap
        /\ nodes' = g.nodes
        /\ dedup' = g.dedup
        /\ errors' = g.errors
        /\ fix_pc' = IF g.raised = NoException THEN "returned" ELSE g.raised
  /\ UNCHANGED client
  /\ UNCHANGED latticeVars
  /\ UNCHANGED internVars

\* fix_problems() a second time, on the same fixer and the graph the first
\* call left.
Call_fix_problems_again ==
  /\ fix_pc = "returned"
  /\ LET g == fix_problems(Graph(heap, nodes, dedup, errors, NoException))
     IN /\ heap' = g.heap
        /\ nodes' = g.nodes
        /\ dedup' = g.dedup
        /\ errors' = g.errors
        /\ fix_pc' = IF g.raised = NoException
                     THEN "returned_again" ELSE "raised_again"
  /\ UNCHANGED client
  /\ UNCHANGED latticeVars
  /\ UNCHANGED internVars

FixerInit ==
  /\ LatticeIdle
  /\ ModuleLoaded
  /\ NoFixer
  /\ client \in FixerClients
  /\ heap = <<>>
  /\ nodes = <<>>

FixerNext ==
  \/ Call_constant_factory
  \/ Call_operator_factory
  \/ Call_fix_problems
  \/ Call_fix_problems_again

SpecFixer == FixerInit /\ [][FixerNext]_vars

(***************************************************************************)
(* fix_problems followed to one edge: the call of meet_requirement there   *)
(***************************************************************************)

\* The loop of fix_problems stopped before the edge i of node: the graph
\* as the earlier edges left it, and what meet_requirement is called with.
at_edge(g, node, reqs, edges, i) ==
  [g |-> fix_edges(g, node, SubSeq(reqs, 1, i - 1), edges, 1),
   node |-> g.heap[node].children[i], requirement |-> reqs[i],
   consumer |-> node, edge |-> edges[i], input |-> i]

\* ... where g is the graph when the loop over the nodes reaches node.
at_node(g, node, i) ==
  at_edge(g, node, requirements(g.heap, node), get_edge_labels(g.heap, node),
          i)

\* fix_problems up to the edge i of the k-th node it visits.
fix_problems_until(g, k, i) ==
  at_node(fix_nodes(g, SubSeq(_traverse_from_roots(g), 1, k - 1)),
          _traverse_from_roots(g)[k], i)

\* node.inputs[i] = self.meet_requirement(node.inputs[i], requirements[i],
\*                                        node, edges[i])
\* with what the call was made on, the number of nodes the program made,
\* and what the call returned, kept in res.
Assign_input(at, met) ==
  /\ heap' = write_input(met, at.consumer, at.input).heap
  /\ nodes' = met.g.nodes
  /\ dedup' = met.g.dedup
  /\ errors' = met.g.errors
  /\ fix_pc' = IF Raised(met) THEN met.g.raised ELSE "edge"
  /\ op' = "meet_requirement"
  /\ res' = [program |-> Len(heap), heap |-> at.g.heap, nodes |-> at.g.nodes,
             dedup |-> at.g.dedup, errors |-> at.g.errors, node |-> at.node,
             requirement |-> at.requirement, consumer |-> at.consumer,
             edge |-> at.edge, input |-> at.input, result |-> met.node]

Meet_requirement_at(at) ==
  /\ at.g.raised = NoException
  /\ Assign_input(at, meet_requirement(at.g, at.node, at.requirement,
                                       at.consumer, at.edge))

\* RequirementsFixer(bmg).fix_problems(), followed until it has assigned
\* one input of one node.
Call_meet_requirement ==
  /\ fix_pc = "none"
  /\ \E k \in 1..Len(nodes) :
       \E i \in 1..Len(heap[nodes[k].node].children) :
         Meet_requirement_at(
           fix_problems_until(Graph(heap, nodes, dedup, <<>>, NoException),
                              k, i))
  /\ UNCHANGED <<arg_t, arg_u, arg_v, client>>
  /\ UNCHANGED internVars

MeetNext ==
  \/ Call_constant_factory
  \/ Call_operator_factory
  \/ Call_meet_requirement

SpecMeet == FixerInit /\ [][MeetNext]_vars

\* The programs that call the power and the multiplication factories, on
\* graphs of up to MaxRepairNodes nodes.
RepairInit ==
  /\ FixerInit
  /\ {"add_power", "add_multiplication"} \subseteq client

Call_constant_factory_early == Constant_factory_call(MaxRepairNodes)

Call_operator_factory_early == Operator_factory_call(MaxRepairNodes)

RepairNext ==
  \/ Call_constant_factory_early
  \/ Call_operator_factory_early
  \/ Call_meet_requirement

SpecRepair == RepairInit /\ [][RepairNext]_vars

(***************************************************************************)
(* bm_graph_builder.py: to_bmg                                             *)
(***************************************************************************)

\* The runtime graph g, the dict d in insertion order, and the exception
\* that ended the emission, if one did.
Emission(g, d, raised) == [g |-> g, d |-> d, raised |-> raised]

\* A call on the runtime graph.
GraphCall(call, args) == [call |-> call, args |-> args]

\* "n in d" and d[n]
InDict(d, n) == \E i \in 1..Len(d) : d[i].node = n
DictGet(d, n) == d[CHOOSE i \in 1..Len(d) : d[i].node = n].id

\* What g.add_constant, g.add_distribution and g.add_operator return: the
\* number of nodes the runtime graph held before the call.
graph_next_id(g) ==
  Cardinality({i \in 1..Len(g) : g[i].call \notin {"observe", "query"}})

\* The operator_type of the operator classes.
operator_type ==
  [AdditionNode |-> "ADD", MultiplicationNode |-> "MULTIPLY",
   NegateNode |-> "NEGATE", ToRealNode |-> "TO_REAL", ExpNode |-> "EXP",
   SampleNode |-> "SAMPLE", ToPositiveRealNode |-> "TO_POS_REAL",
   ToProbabilityNode |-> "TO_PROBABILITY", PowerNode |-> "POW",
   IfThenElseNode |-> "IF_THEN_ELSE"]

\* The call node._add_to_graph(g, d) makes, given the ids of its inputs.
graph_call_of(node, ids) ==
  CASE node.kind \in ConstantNodeKinds -> GraphCall("add_constant", <<node.value>>)
    [] node.kind = "ConstantNode" ->
         GraphCall("add_constant", <<node.value.value>>)
    [] node.kind = "BernoulliNode" ->
         GraphCall("add_distribution", <<"BERNOULLI", "BOOLEAN", ids>>)
    [] node.kind = "Observation" -> GraphCall("observe", ids)
    [] node.kind = "Query" -> GraphCall("query", ids)
    [] OTHER -> GraphCall("add_operator", <<operator_type[node.kind], ids>>)

\* The inputs whose ids node._add_to_graph looks up in d: all of them, but
\* for an observation the observed sample only.
looked_up(node) ==
  IF node.kind = "Observation" THEN <<node.children[1]>> ELSE node.children

\* d[node] = node._add_to_graph(g, d): KeyError when an input has no entry
\* in d; an observation and a query return -1.
_add_to_graph(h, n, out) ==
  IF \E k \in 1..Len(looked_up(h[n])) : ~InDict(out.d, looked_up(h[n])[k])
  THEN Emission(out.g, out.d, "KeyError")
  ELSE LET ids == [k \in 1..Len(looked_up(h[n])) |->
                     DictGet(out.d, looked_up(h[n])[k])]
           args == IF h[n].kind = "Observation"
                   THEN <<ids[1], h[h[n].children[2]].value>> ELSE ids
           id == IF h[n].kind \in {"Observation", "Query"}
                 THEN -1 ELSE graph_next_id(out.g)
       IN Emission(Append(out.g, graph_call_of(h[n], args)),
                   Append(out.d, [node |-> n, id |-> id]),
                   NoException)

\* for node in self.nodes: d[node] = node._add_to_graph(g, d), from the
\* entry i of the dict on.
RECURSIVE to_bmg_from(_, _, _, _)
to_bmg_from(h, ns, i, out) ==
  IF i > Len(ns) \/ out.raised # NoException THEN out
  ELSE to_bmg_from(h, ns, i + 1, _add_to_graph(h, ns[i].node, out))

\* to_bmg: a new runtime graph and an empty dict, then the nodes in
\* insertion order; nothing else is looked at.
to_bmg(h, ns) == to_bmg_from(h, ns, 1, Emission(<<>>, <<>>, NoException))

\* bmg.to_bmg(), the last call of the program.
Call_to_bmg ==
  /\ op = "idle"
  /\ op' = "to_bmg"
  /\ res' = to_bmg(heap, nodes)
  /\ UNCHANGED <<arg_t, arg_u, arg_v>>
  /\ UNCHANGED internVars
  /\ UNCHANGED fixerVars
  /\ UNCHANGED builderVars

\* A program that builds a graph with the factories and emits it.
BuilderInit ==
  /\ LatticeIdle
  /\ ModuleLoaded
  /\ NoFixer
  /\ client \in Clients
  /\ heap = <<>>
  /\ nodes = <<>>

BuilderNext ==
  \/ add_real
  \/ add_boolean
  \/ add_tensor
  \/ add_bernoulli
  \/ add_addition
  \/ add_multiplication
  \/ add_negate
  \/ add_to_real
  \/ add_exp
  \/ add_sample
  \/ add_observation
  \/ add_query
  \/ Call_add_node
  \/ Call_to_bmg

SpecBuilder == BuilderInit /\ [][BuilderNext]_vars

\* bmg.to_bmg() once fix_problems has returned.
Call_to_bmg_after_fix ==
  /\ fix_pc = "returned"
  /\ Call_to_bmg

EmitNext ==
  \/ Call_constant_factory
  \/ Call_operator_factory
  \/ Call_fix_problems
  \/ Call_to_bmg_after_fix

\* A program that builds a graph, fixes it and emits it.
SpecEmit == FixerInit /\ [][EmitNext]_vars

(***************************************************************************)
(* Claims about the fixer                                                  *)
(***************************************************************************)

\* The builder's nodes.
BuilderNodes == {nodes[i].node : i \in 1..Len(nodes)}

\* The edge i of node n meets its requirement, or a violation names it.
EdgeMetOrReported(n, i) ==
  LET producer == heap[n].children[i]
      requirement == requirements(heap, n)[i]
  IN \/ meets_requirement(graph_type(heap, producer), requirement)
     \/ \E e \in 1..Len(errors) :
          errors[e] = Violation(producer, requirement, n,
                                get_edge_labels(heap, n)[i])

\* C9: after fix_problems has returned, every input edge of every node of
\* the builder either carries a node whose graph type meets the edge's
\* requirement or is named by a violation of the error report.
C9_EveryEdgeMetOrReported ==
  fix_pc = "returned" =>
    \A n \in BuilderNodes :
      \A i \in 1..Len(heap[n].children) : EdgeMetOrReported(n, i)

\* C11: after fix_problems has returned, every input of every node of the
\* builder is in the builder at a strictly smaller index than the node: the
\* replacements the fixer wrote into node.inputs[i] precede their consumers.
C11_TopologicalOrderAfterFixing ==
  fix_pc = "returned" =>
    \A i \in 1..Len(nodes) :
      \A k \in 1..Len(heap[nodes[i].node].children) :
        /\ InNodes(nodes, heap[nodes[i].node].children[k])
        /\ IndexOf(nodes, heap[nodes[i].node].children[k]) < nodes[i].index

\* C12: fix_problems is idempotent: a second call, on the graph the first
\* call left, returns having replaced no input of any node, added no node
\* to the builder and added no entry to the error report.
C12_SecondRunChangesNothing ==
  [][(fix_pc = "returned" /\ fix_pc' # "returned") =>
       /\ fix_pc' = "returned_again"
       /\ heap' = heap
       /\ nodes' = nodes
       /\ errors' = errors]_vars

\* C14: the fixer never aborts early: a call of fix_problems on a graph of
\* constants, distributions and operators returns, and does not end in
\* an exception.
C14_FixProblemsReturns ==
  fix_pc \in {"none", "returned", "returned_again", "raised_again"}

\* The edge i of node n requires Exact(Tensor) of an operator that does
\* not meet it and whose inf_type is not Malformed.
TensorDemanded(n, i) ==
  LET producer == heap[n].children[i]
  IN /\ requirements(heap, n)[i] = Tensor
     /\ isinstance_OperatorNode(heap, producer)
     /\ ~meets_requirement(graph_type(heap, producer), Tensor)
     /\ inf_type(heap, producer) # Malformed

\* Every edge the fixer visits before the edge i of node n is met or
\* reported.
EarlierEdgesSettled(n, i) ==
  /\ \A k \in 1..(i - 1) : EdgeMetOrReported(n, k)
  /\ \A m \in BuilderNodes :
       IndexOf(nodes, m) < IndexOf(nodes, n) =>
         \A k \in 1..Len(heap[m].children) : EdgeMetOrReported(m, k)

\* C15: when the first edge fix_problems cannot settle requires
\* Exact(Tensor) of an operator whose inf_type is at or below Tensor, the
\* call ends in the ValueError "Unsupported type requirement: Tensor" and in
\* no other failure.
C15_TensorRequirementIsValueError ==
  fix_pc \in {"returned", "AssertionError", "ValueError"} =>
    \A n \in BuilderNodes :
      \A i \in 1..Len(heap[n].children) :
        (TensorDemanded(n, i) /\ EarlierEdgesSettled(n, i)) =>
          fix_pc = "ValueError"

\* C16: emission is gated on the error report: when the report the fixer
\* left is not empty, to_bmg makes no call on the runtime graph.
C16_NoEmissionWithErrors ==
  (op = "to_bmg" /\ errors # <<>>) => res.g = <<>>

(***************************************************************************)
(* The lattice order drawn in bmg_types.py, and the table of the spec      *)
(***************************************************************************)

\* <<smaller, larger>> for each edge of the drawn lattice of matrix classes.
LatticeEdges ==
  {<<"RP", "R">>, <<"RN", "R">>, <<"N", "RP">>, <<"P", "RP">>, <<"B", "N">>,
   <<"B", "P">>, <<"S", "P">>, <<"OH", "B">>, <<"OH", "S">>, <<"Z", "RN">>,
   <<"Z", "B">>}

RECURSIVE ClassesAbove(_)
ClassesAbove(ks) ==
  LET more == ks \cup {e[2] : e \in {d \in LatticeEdges : d[1] \in ks}}
  IN IF more = ks THEN ks ELSE ClassesAbove(more)

\* t is at or below u in the drawn order: bottom below all, Malformed above
\* all, Tensor above all but Malformed, matrix types compared shape by shape.
LatticeLeq(t, u) ==
  \/ t = u
  \/ t = bottom
  \/ u = Malformed
  \/ u = Tensor /\ t # Malformed
  \/ /\ isinstance_BMGMatrixType(t) /\ isinstance_BMGMatrixType(u)
     /\ t.rows = u.rows /\ t.columns = u.columns
     /\ u.cls \in ClassesAbove({t.cls})

\* The supremum table of the spec: the rows as printed (the entries from the
\* diagonal rightwards), in the order R, R+, R-, P, S, N, B, OH, Z.
SpecTableOrder == <<"R", "RP", "RN", "P", "S", "N", "B", "OH", "Z">>

SpecTableRows ==
  <<<<"R", "R", "R", "R", "R", "R", "R", "R", "R">>,
    <<"RP", "R", "RP", "RP", "RP", "RP", "RP", "RP">>,
    <<"RN", "R", "R", "R", "R", "R", "RN">>,
    <<"P", "P", "RP", "P", "P", "P">>,
    <<"S", "RP", "RP", "S", "R">>,
    <<"N", "N", "N", "N">>,
    <<"B", "B", "B">>,
    <<"OH", "B">>,
    <<"Z">>>>

SpecTableIndex(k) == CHOOSE i \in 1..9 : SpecTableOrder[i] = k

\* The table read as a symmetric table.
SpecTableEntry(a, b) ==
  LET i == SpecTableIndex(a)
      j == SpecTableIndex(b)
      lo == IF i <= j THEN i ELSE j
      hi == IF i <= j THEN j ELSE i
  IN SpecTableRows[lo][hi - lo + 1]

SameShapedMatrices(t, u) ==
  /\ isinstance_BMGMatrixType(t) /\ isinstance_BMGMatrixType(u)
  /\ t.rows = u.rows /\ t.columns = u.columns

(***************************************************************************)
(* Claims about the lattice                                                *)
(***************************************************************************)

\* C1: the supremum is commutative: sup(t, u) = sup(u, t) for every pair of
\* lattice types.
C1_SupremumCommutative ==
  op = "_supremum" => res.tu = res.ut

\* C2: the supremum is associative: sup(t, sup(u, v)) = sup(sup(t, u), v)
\* for every triple of lattice types.
C2_SupremumAssociative ==
  op = "_supremum" => res.t_uv = res.tu_v

\* C3: bottom is the identity and Malformed is absorbing for the supremum,
\* in both argument orders and for every type, the markers included.
C3_BottomIdentityMalformedAbsorbing ==
  op = "_supremum" =>
    /\ arg_u = bottom => res.tu = arg_t /\ res.ut = arg_t
    /\ arg_u = Malformed => res.tu = Malformed /\ res.ut = Malformed

\* C3 witness: the supremum of a matrix type with bottom was taken, and of
\* a matrix type with Malformed.
C3_Witness ==
  /\ op = "_supremum"
  /\ arg_t = SimplexMatrix(1, 2)
  /\ arg_u = bottom
  /\ arg_v = Malformed
  /\ res.tu = arg_t
  /\ res.tu_v = Malformed

\* C4: sup(t, u) is the least upper bound of t and u in the drawn lattice
\* order: for same-shaped types it is above both operands and below every
\* type that is above both.
C4_SupremumIsLeastUpperBound ==
  (op = "_supremum" /\ SameShapedMatrices(arg_t, arg_u)) =>
    /\ LatticeLeq(arg_t, res.tu)
    /\ LatticeLeq(arg_u, res.tu)
    /\ \A w \in LatticeTypes :
         (LatticeLeq(arg_t, w) /\ LatticeLeq(arg_u, w)) => LatticeLeq(res.tu, w)

\* C5: for every ordered pair of distinct matrix classes at the same shape
\* the supremum is the entry of the spec's table, read as a symmetric table,
\* applied with the common shape.
C5_SupremumMatchesSpecTable ==
  (op = "_supremum" /\ SameShapedMatrices(arg_t, arg_u) /\ arg_t.cls # arg_u.cls) =>
    res.tu = MatrixType(SpecTableEntry(arg_t.cls, arg_u.cls),
                        arg_t.rows, arg_t.columns)

\* C6 as stated: for every pair of lattice types, meets(t, UpperBound(u)) is
\* true if and only if sup(t, u) = u.
C6_MeetsUpperBoundIffSupremum ==
  op = "meets_requirement" =>
    (res.upper <=> (_supremum(arg_t, arg_u) = arg_u))

\* C6 amended: for every pair of lattice types with t not Malformed,
\* meets(t, UpperBound(u)) is true if and only if sup(t, u) = u, and
\* meets(Malformed, UpperBound(u)) is false for every u, Malformed included.
C6_MeetsUpperBoundAmended ==
  op = "meets_requirement" =>
    IF arg_t = Malformed
    THEN res.upper = FALSE
    ELSE res.upper <=> (_supremum(arg_t, arg_u) = arg_u)

\* C6 witness: a type strictly below the bound was found to meet it.
C6_Witness ==
  /\ op = "meets_requirement"
  /\ arg_t = BooleanMatrix(2, 1)
  /\ arg_u = ProbabilityMatrix(2, 1)
  /\ res.upper = TRUE

\* C7: Malformed meets no requirement, exact or upper bound, Malformed's own
\* included; any other type meets an exact requirement precisely when it is
\* that type.
C7_MalformedMeetsNothingExactIsEquality ==
  op = "meets_requirement" =>
    /\ arg_t = Malformed => (res.upper = FALSE /\ res.exact = FALSE)
    /\ arg_t # Malformed => (res.exact <=> (arg_t = arg_u))

\* C7 witness: Malformed was tested against the requirements on Malformed.
C7_Witness ==
  /\ op = "meets_requirement"
  /\ arg_t = Malformed
  /\ arg_u = Malformed
  /\ res.exact = FALSE
  /\ res.upper = FALSE

(***************************************************************************)
(* Claims about the builder                                                *)
(***************************************************************************)

\* C10: after any sequence of factory calls every child of every node in
\* the builder is itself in the builder, at a strictly smaller index.
C10_ChildrenPrecedeParents ==
  \A i \in 1..Len(nodes) :
    \A k \in 1..Len(heap[nodes[i].node].children) :
      LET child == heap[nodes[i].node].children[k]
      IN /\ InNodes(nodes, child)
         /\ IndexOf(nodes, child) < nodes[i].index

\* C10 witness: a factory added a node whose child, constructed outside the
\* builder, had to be added first; the builder holds a node with two inputs.
C10_Witness ==
  /\ Len(nodes) = 3
  /\ heap[nodes[3].node].kind = "AdditionNode"
  /\ heap[nodes[3].node].children = <<nodes[1].node, nodes[2].node>>
  /\ nodes[1].node > nodes[2].node

\* The dict maps the nodes it holds, one to one, onto 0..n-1, in the order
\* of insertion.
IndexMapIsBijection ==
  \A i \in 1..Len(nodes) :
    /\ nodes[i].index = i - 1
    /\ \A j \in 1..Len(nodes) : nodes[i].node = nodes[j].node => i = j

\* The entries the dict holds stay as they are.
EntriesKept ==
  /\ Len(nodes') >= Len(nodes)
  /\ \A i \in 1..Len(nodes) : nodes'[i] = nodes[i]

\* C29: after any sequence of calls of add_node and of the factories the
\* dict of the builder maps its nodes one to one onto 0..n-1, a node that
\* is inserted getting the number of nodes inserted before it, its absent
\* children included; a call changes the index of no node the dict holds,
\* and a call that constructs no node, as add_node on a node the dict
\* holds, leaves the dict as it is.
C29_IndexMapStable ==
  /\ []IndexMapIsBijection
  /\ [][EntriesKept /\ (heap' = heap => nodes' = nodes)]_vars

\* A multiplication was inserted at index 2, after its two operands, which
\* the builder had not seen and which it inserted in the order of the
\* inputs.
C29_Witness ==
  /\ Len(nodes) = 3
  /\ heap[nodes[3].node].kind = "MultiplicationNode"
  /\ heap[nodes[3].node].children = <<nodes[1].node, nodes[2].node>>
  /\ nodes[2].node < nodes[1].node
  /\ nodes[3].index = 2

\* C13: the builder never holds two distinct entries with the same
\* structural key: two nodes of the same class with equal constant value and
\* identical inputs are the same node.
C13_NoStructuralDuplicates ==
  \A i \in 1..Len(nodes) :
    \A j \in 1..Len(nodes) :
      (/\ heap[nodes[i].node].kind = heap[nodes[j].node].kind
       /\ heap[nodes[i].node].children = heap[nodes[j].node].children
       /\ heap[nodes[i].node].value = heap[nodes[j].node].value) => i = j

\* The call the runtime is to receive for a node of the builder.
RuntimeCallOf(kind) ==
  IF kind \in ConstantNodeKinds \cup {"ConstantNode"} THEN "add_constant"
  ELSE IF kind \in DistributionNodeKinds THEN "add_distribution"
  ELSE IF kind = "Observation" THEN "observe"
  ELSE IF kind = "Query" THEN "query"
  ELSE "add_operator"

\* C17: to_bmg emits each node of the builder exactly once, in insertion
\* order, and no lookup of an input's id fails: when a node is emitted each
\* of its inputs has an entry earlier in the map, holding a runtime id;
\* an observation and a query make an observe and a query call and get no
\* runtime id (the map holds -1 for them).
C17_EmissionInInsertionOrder ==
  op = "to_bmg" =>
    /\ res.raised = NoException
    /\ Len(res.g) = Len(nodes)
    /\ Len(res.d) = Len(nodes)
    /\ \A i \in 1..Len(nodes) :
         /\ res.d[i].node = nodes[i].node
         /\ res.g[i].call = RuntimeCallOf(heap[nodes[i].node].kind)
         /\ \A k \in 1..Len(heap[nodes[i].node].children) :
              \E j \in 1..(i - 1) :
                /\ res.d[j].node = heap[nodes[i].node].children[k]
                /\ res.d[j].id >= 0
         /\ IF heap[nodes[i].node].kind \in {"Observation", "Query"}
            THEN res.d[i].id = -1
            ELSE /\ res.d[i].id >= 0
                 /\ \A j \in 1..(i - 1) : res.d[j].id # res.d[i].id

(***************************************************************************)
(* Claims about interning                                                  *)
(***************************************************************************)

\* C8: types are interned: two type objects with the same class, rows and
\* columns are the same object, and the result _supremum holds for a pair
\* of arguments is the object its body returns for them, so comparing types
\* by identity and by value agree.
C8_TypesInterned ==
  /\ \A a \in type_objects, b \in type_objects : a.key = b.key => a = b
  /\ sup_memo # <<>> =>
       /\ sup_memo.result \in type_objects
       /\ sup_memo.result =
            _supremum_objects(InternState(type_objects, class_memo),
                              TRUE, sup_memo.t, sup_memo.u).obj

\* C8 witness: _supremum made a matrix type that did not exist, from two
\* matrix types made after the module was loaded, and holds it in its memo.
C8_Witness ==
  /\ sup_memo # <<>>
  /\ sup_memo.t.key = ProbabilityMatrix(1, 2)
  /\ sup_memo.u.key = NaturalMatrix(1, 2)
  /\ sup_memo.result.key = PositiveRealMatrix(1, 2)
  /\ Cardinality(type_objects) = Cardinality(ModuleTypeObjects) + 4

(***************************************************************************)
(* Claims about type_of_value                                              *)
(***************************************************************************)

\* The type listed for a scalar of value x / 2.
ListedScalarType(x) ==
  IF x = 2 THEN One
  ELSE IF x = 0 THEN Zero
  ELSE IF x < 0 THEN NegativeReal
  ELSE IF x % 2 = 0 THEN Natural
  ELSE IF x < 2 THEN Probability
  ELSE PositiveReal

C19_RankAboveTwoIsTensor ==
  (op = "type_of_value" /\ arg_v.py = "Tensor" /\ Len(arg_v.shape) > 2) =>
    res.type = Tensor

\* C19 amended: a tensor of more than two dimensions is typed Tensor when
\* it has more than one element, and as the float it holds when it has one.
C19_RankAboveTwoAmended ==
  (op = "type_of_value" /\ arg_v.py = "Tensor" /\ Len(arg_v.shape) > 2) =>
    IF numel(arg_v) > 1
    THEN res.type = Tensor
    ELSE res.type = ListedScalarType(arg_v.data[1])

\* C19 witness: a tensor of shape (1, 1, 2) was typed Tensor.
C19_Witness ==
  /\ op = "type_of_value"
  /\ arg_v = torch_tensor(<<1, 1, 2>>, <<1, 2>>)
  /\ res.type = Tensor

\* The 1 x 1 matrix types, and the least of them at or above every type of
\* ts in the drawn lattice order.
ScalarTypes == {MatrixType(k, 1, 1) : k \in MatrixClasses}

LeastUpperBound(ts) ==
  CHOOSE w \in ScalarTypes :
    /\ \A t \in ts : LatticeLeq(t, w)
    /\ \A x \in ScalarTypes :
         (\A t \in ts : LatticeLeq(t, x)) => LatticeLeq(w, x)

\* The type listed for a matrix of r rows and c columns.
ListedMatrixType(v, r, c) ==
  LET sup == LeastUpperBound({ListedScalarType(v.data[i]) : i \in 1..numel(v)})
      between == \E i \in 1..numel(v) : 0 < v.data[i] /\ v.data[i] < 2
      zeros == \A i \in 1..numel(v) : v.data[i] = 0
      rows_sum_to_1 == \A k \in 1..r : row_sum(v, c, k, c) = 2
  IN IF sup \in {Real, PositiveReal, NegativeReal, Natural}
     THEN MatrixType(sup.cls, r, c)
     ELSE IF rows_sum_to_1
     THEN (IF between THEN SimplexMatrix(r, c) ELSE OneHotMatrix(r, c))
     ELSE IF between THEN ProbabilityMatrix(r, c)
     ELSE IF zeros THEN ZeroMatrix(r, c)
     ELSE BooleanMatrix(r, c)

\* C20: for a tensor of one or two dimensions and more than one element,
\* type_of_value returns the r x c type listed: the supremum of the
\* elements' types when that is Real, PositiveReal, NegativeReal or
\* Natural; else SimplexMatrix or OneHotMatrix when every row sums to 1;
\* else ProbabilityMatrix, ZeroMatrix or BooleanMatrix; never bottom and
\* never Malformed.
C20_MatricesClassified ==
  (/\ op = "type_of_value"
   /\ arg_v.py = "Tensor"
   /\ Len(arg_v.shape) \in {1, 2}
   /\ numel(arg_v) > 1) =>
    /\ res.type =
         ListedMatrixType(
           arg_v,
           IF Len(arg_v.shape) = 1 THEN 1 ELSE arg_v.shape[1],
           IF Len(arg_v.shape) = 1 THEN arg_v.shape[1] ELSE arg_v.shape[2])
    /\ res.type \notin {bottom, Malformed}

\* C20 witness: [[0, 1, 0], [0, 0, 1]] was typed OneHotMatrix(2, 3).
C20_Witness ==
  /\ op = "type_of_value"
  /\ arg_v = torch_tensor(<<2, 3>>, <<0, 2, 0, 0, 0, 2>>)
  /\ res.type = OneHotMatrix(2, 3)

(***************************************************************************)
(* Claims about meet_requirement                                           *)
(***************************************************************************)

\* meet_requirement was called on an operator that does not meet the
\* requirement of the edge.
OperatorFallsShort ==
  /\ op = "meet_requirement"
  /\ isinstance_OperatorNode(res.heap, res.node)
  /\ ~node_meets_requirement(res.heap, res.node, res.requirement)

\* The call returned, and its result was assigned to the input of the
\* consumer.
InputAssigned ==
  /\ fix_pc = "edge"
  /\ heap[res.consumer].children[res.input] = res.result

\* The node n has the type t; it is the node the call was made on when
\* that has the type t, and a ToReal or ToPositiveReal node when that has
\* another type and is not malformed.
ConvertedTo(n, t) ==
  /\ graph_type(heap, n) = t
  /\ graph_type(res.heap, res.node) = t => n = res.node
  /\ graph_type(res.heap, res.node) \notin {t, Malformed} =>
       heap[n].kind =
         (IF t = Real THEN "ToRealNode" ELSE "ToPositiveRealNode")

\* C21: when an operator whose inf_type is Real or PositiveReal feeds an
\* edge that requires Exact(Probability) or UpperBound(Probability), the
\* input of the edge becomes a ToProbability node over the operator
\* converted to its inf_type; the new input meets the requirement and no
\* violation is recorded.
C21_ForcedToProbability ==
  (/\ OperatorFallsShort
   /\ res.requirement \in {Probability, upper_bound(Probability)}
   /\ inf_type(res.heap, res.node) \in {Real, PositiveReal}) =>
    /\ InputAssigned
    /\ heap[res.result].kind = "ToProbabilityNode"
    /\ ConvertedTo(heap[res.result].children[1],
                   inf_type(res.heap, res.node))
    /\ node_meets_requirement(heap, res.result, res.requirement)
    /\ errors = res.errors

\* A Bernoulli over an addition of inf_type PositiveReal: the input has
\* become ToProbability(the addition), with no error.
C21_Witness ==
  /\ OperatorFallsShort
  /\ res.requirement = Probability
  /\ res.heap[res.node].kind = "AdditionNode"
  /\ inf_type(res.heap, res.node) = PositiveReal
  /\ heap[res.consumer].kind = "BernoulliNode"
  /\ heap[res.result].kind = "ToProbabilityNode"
  /\ heap[res.result].children = <<res.node>>
  /\ heap[res.consumer].children = <<res.result>>
  /\ errors = <<>>

\* meet_requirement was called on a constant that does not meet the
\* requirement of the edge.
ConstantFallsShort ==
  /\ op = "meet_requirement"
  /\ isinstance_ConstantNode(res.heap, res.node)
  /\ ~node_meets_requirement(res.heap, res.node, res.requirement)

\* The nodes the call made.
NodesMade == (1..Len(heap)) \ (1..Len(res.heap))

\* C22: a constant that does not meet the requirement of its edge and whose
\* inf_type is at or below the required type is replaced, as the input of
\* the edge, by a constant of the required type with the same value, which
\* meets the requirement; the call makes no operator node and records no
\* violation.
C22_ConstantConvertedDirectly ==
  (/\ ConstantFallsShort
   /\ type_meets_requirement(inf_type(res.heap, res.node),
                             upper_bound(res.requirement))) =>
    /\ InputAssigned
    /\ heap[res.result] =
         ConstantNode(res.heap[res.node].value.value,
                      requirement_to_type(res.requirement))
    /\ node_meets_requirement(heap, res.result, res.requirement)
    /\ \A n \in NodesMade : isinstance_ConstantNode(heap, n)
    /\ errors = res.errors

\* The constant Natural(2) under Exact(Real), as the left operand of an
\* addition: the input has become the constant Real(2).
C22_Witness ==
  /\ ConstantFallsShort
  /\ res.heap[res.node] = ConstantNode(PyInt(2), Natural)
  /\ res.requirement = Real
  /\ heap[res.consumer].kind = "AdditionNode"
  /\ heap[res.result] = ConstantNode(PyInt(2), Real)
  /\ NodesMade = {res.result}
  /\ errors = <<>>

\* The node the call was made on cannot be converted: its inf_type is not
\* at or below the required type, and it is not an operator of inf_type
\* Real or PositiveReal under a requirement of Probability.
NotConvertible ==
  /\ ~type_meets_requirement(inf_type(res.heap, res.node),
                             upper_bound(res.requirement))
  /\ ~(/\ isinstance_OperatorNode(res.heap, res.node)
       /\ res.requirement \in {Probability, upper_bound(Probability)}
       /\ inf_type(res.heap, res.node) \in {Real, PositiveReal})

\* C23: when the constant or operator on an edge neither meets the
\* requirement nor can be converted, the call adds the one violation
\* Violation(producer, requirement, consumer, edge label) to the report,
\* leaves the producer as the input of the edge, and makes no node.
C23_ViolationRecorded ==
  ((ConstantFallsShort \/ OperatorFallsShort) /\ NotConvertible) =>
    /\ InputAssigned
    /\ res.result = res.node
    /\ errors = Append(res.errors,
                       Violation(res.node, res.requirement, res.consumer,
                                 res.edge))
    /\ heap = res.heap
    /\ nodes = res.nodes

\* An operator of inf_type Tensor under the Exact(Probability) of a
\* Bernoulli: one violation, the same graph.
C23_Witness ==
  /\ OperatorFallsShort
  /\ inf_type(res.heap, res.node) = Tensor
  /\ res.requirement = Probability
  /\ heap[res.consumer].kind = "BernoulliNode"
  /\ errors = <<Violation(res.node, Probability, res.consumer,
                          "probability")>>
  /\ heap = res.heap

\* The nodes the fixer made: those that are not the program's.
FixerMade == (1..Len(heap)) \ (1..res.program)

\* The nodes the input of the edge is made over: the node the call
\* returned, and the inputs, among the nodes the fixer made, of those.
RECURSIVE MadeOver(_, _)
MadeOver(ns, fuel) ==
  IF fuel = 0 THEN ns
  ELSE MadeOver(ns \cup UNION {{heap[n].children[k] :
                                   k \in 1..Len(heap[n].children)} :
                                 n \in ns \cap FixerMade},
                fuel - 1)

\* The edge consumes IfThenElse(b, x, the constant of the value and of
\* the type t), converted further or not, and that if-then-else has the
\* type t.
ConsumedAsIfThenElse(b, x, value, t) ==
  \E n \in {m \in 1..Len(heap) : heap[m].kind = "IfThenElseNode"} :
    /\ n \in MadeOver({res.result}, Len(heap))
    /\ heap[n].children[1] = b
    /\ heap[n].children[2] = x
    /\ heap[heap[n].children[3]] = ConstantNode(value, t)
    /\ graph_type(heap, n) = t

\* The operands the node the call was made on was built with, in both
\* orders.
OperandsAsBuilt ==
  LET made == dedup[res.node].children
  IN {<<made[1], made[2]>>, <<made[2], made[1]>>}

\* C24: after the fixer has assigned the input of an edge whose producer
\* is a multiplication built with one operand b of type Boolean and
\* another operand x of a type t other than Boolean, the edge consumes
\* IfThenElse(b, x, the constant 0 of type t), converted further when the
\* requirement demands it, and that if-then-else has the type t.
C24_MalformedMultiplicationRepaired ==
  (/\ op = "meet_requirement"
   /\ fix_pc = "edge"
   /\ dedup[res.node].kind = "MultiplicationNode") =>
    \A operands \in OperandsAsBuilt :
      (/\ graph_type(res.heap, operands[1]) = Boolean
       /\ graph_type(res.heap, operands[2]) \notin {Boolean, Malformed}) =>
        ConsumedAsIfThenElse(operands[1], operands[2], PyFloat(0),
                             graph_type(res.heap, operands[2]))

\* The base and the exponent of the power the call was made on (the left
\* and the right operand, when it is a multiplication).
Base == res.heap[res.node].children[1]
Exponent == res.heap[res.node].children[2]

\* The call was made on a power whose exponent has the type Boolean, and
\* returned.
BooleanPowerConsumed ==
  /\ op = "meet_requirement"
  /\ fix_pc = "edge"
  /\ res.heap[res.node].kind = "PowerNode"
  /\ graph_type(res.heap, Exponent) = Boolean

\* C25: after the fixer has assigned the input of an edge whose producer
\* is a power x ** b with b of type Boolean, the edge consumes
\* IfThenElse(b, x, the constant 1 of the graph type of x), converted
\* further when the requirement demands it, and that if-then-else has the
\* graph type of x.
C25_MalformedPowerRepaired ==
  BooleanPowerConsumed =>
    ConsumedAsIfThenElse(Exponent, Base, PyFloat(2),
                         graph_type(res.heap, Base))

\* The call was made on a malformed multiplication or power that
\* _meet_operator_requirement hands to _convert_node, which enters the
\* repair: one whose inf_type is at or below the required type, or is Real
\* or PositiveReal under a requirement of Probability.
RepairEntered ==
  /\ op = "meet_requirement"
  /\ res.heap[res.node].kind \in {"MultiplicationNode", "PowerNode"}
  /\ graph_type(res.heap, res.node) = Malformed
  /\ \/ type_meets_requirement(inf_type(res.heap, res.node),
                               upper_bound(res.requirement))
     \/ /\ res.requirement \in {Probability, upper_bound(Probability)}
        /\ inf_type(res.heap, res.node) \in {Real, PositiveReal}

\* The type the repair is asked for: the exact requirement of the edge
\* when the inf_type is at or below it, and the inf_type otherwise.
RepairTarget ==
  IF /\ type_meets_requirement(inf_type(res.heap, res.node),
                               upper_bound(res.requirement))
     /\ ~isinstance_UpperBound(res.requirement)
  THEN res.requirement
  ELSE inf_type(res.heap, res.node)

ImplicitConversion ==
  /\ OperatorFallsShort
  /\ type_meets_requirement(inf_type(res.heap, res.node),
                            upper_bound(res.requirement))

\* What _convert_node returns there.
Conversion ==
  _convert_node(Graph(res.heap, res.nodes, res.dedup, res.errors,
                      NoException),
                res.node, RepairTarget, res.consumer, res.edge)

\* The assertion of line 360 fires on what _convert_node has returned.
FinalAssertionFires(converted) ==
  /\ ~Raised(converted)
  /\ ~node_meets_requirement(converted.g.heap, converted.node,
                             res.requirement)

\* C27: when an operator that does not meet the requirement of its edge
\* has an inf_type at or below the required type, the node _convert_node
\* returns meets the requirement, so that the assertion of line 360 does
\* not fire; and under an upper bound the node the call returns has
\* exactly the inf_type of the operator.
C27_ConversionMeetsRequirement ==
  ImplicitConversion =>
    /\ ~FinalAssertionFires(Conversion)
    /\ fix_pc = "edge" =>
         /\ node_meets_requirement(heap, res.result, res.requirement)
         /\ isinstance_UpperBound(res.requirement) =>
              graph_type(heap, res.result) = inf_type(res.heap, res.node)

\* What _convert_node returned is IfThenElse(the operator, the constant 1
\* of the type asked for, the constant 0 of that type).
IfThenElseOneZero(converted) ==
  /\ ~Raised(converted)
  /\ LET made == converted.g.heap[converted.node]
     IN /\ made.kind = "IfThenElseNode"
        /\ made.children[1] = res.node
        /\ converted.g.heap[made.children[2]] =
             ConstantNode(PyFloat(2), RepairTarget)
        /\ converted.g.heap[made.children[3]] =
             ConstantNode(PyFloat(0), RepairTarget)

\* C28: when _convert_node is handed an operator that is not malformed and
\* a type that is not Tensor, Real or PositiveReal, the type is Natural or
\* Probability, the inf_type of the operator is at or below Boolean, and
\* what is returned is IfThenElse(operator, 1, 0) with constants of that
\* type.
C28_RemainingTargetsAreNaturalOrProbability ==
  (/\ ImplicitConversion
   /\ graph_type(res.heap, res.node) # Malformed
   /\ RepairTarget \notin {Tensor, Real, PositiveReal}) =>
    /\ RepairTarget \in {Natural, Probability}
    /\ supremum(<<inf_type(res.heap, res.node), Boolean>>) = Boolean
    /\ IfThenElseOneZero(Conversion)

\* The element kind of each matrix class, as the classes are named.
ElementKindOfVariant ==
  [B |-> bool_element, N |-> natural_element, P |-> probability_element,
   S |-> probability_element, RP |-> positive_real_element,
   RN |-> negative_real_element, R |-> real_element, OH |-> bool_element,
   Z |-> bool_element]

\* C30: every matrix type object records the element kind of its own
\* variant: a BooleanMatrix, a OneHotMatrix and a ZeroMatrix have
\* element_type bool, a NaturalMatrix natural, a ProbabilityMatrix and a
\* SimplexMatrix probability, a PositiveRealMatrix positive real, a
\* NegativeRealMatrix negative real and a RealMatrix real, whatever their
\* rows and columns.
C30_ElementKindOfOwnVariant ==
  \A o \in type_objects :
    isinstance_BMGMatrixType(o.key) =>
      o.element_type = ElementKindOfVariant[o.key.cls]

====
